---- MODULE Spec2Model ----
(***************************************************************************)
(* Model of scripts/generate_langs.py: the paginated repository listing,   *)
(* the per-repository commit count, the two language tallies, the top-N    *)
(* selection and the donut-chart layout.                                   *)
(*                                                                         *)
(* Python values are modelled as follows.  A dict is the sequence of its   *)
(* items in insertion order, each item a record [label, value].  None is   *)
(* the string "None".  An angle is an integer numerator over the           *)
(* denominator 4 * total, in turns (1 turn = 2*pi), so that -pi/2 is       *)
(* -total / (4 * total) and a slice of share value/total spans             *)
(* 4 * value / (4 * total): the arithmetic is exact, floating-point        *)
(* rounding is not modelled.                                               *)
(***************************************************************************)
EXTENDS Integers, Sequences, FiniteSets, TLC

VARIABLES
    pc,            \* position of main(): fetch, count, commits, done, exited (idle: not run)
    server,        \* the account's repositories, as the chain of pages the API serves
    cursor,        \* fetch_repositories: cursor
    repos,         \* fetch_repositories: repos / main: repos
    requests,      \* the `after` variable of every GraphQL request sent, in order
    stderr,        \* diagnostics printed to sys.stderr, in order
    stdout,        \* lines printed to sys.stdout, in order
    exitCode,      \* process exit status, NotExited while running
    repo_data,     \* main: repo_data
    activity_data, \* commit_weighted_languages: weighted / main: activity_data
    idx,           \* commit_weighted_languages: position of the for loop in repos
    calls,         \* every commit-count request sent: repository name and response
    outfile,       \* content of OUTPUT_FILE, <<>> while it is not written
    tn_data,       \* top_n_with_other: argument data
    tn_ret,        \* top_n_with_other: returned list
    pp_data,       \* pie_paths: argument data
    pp_colors,     \* pie_paths: argument colors
    pp_ret,        \* pie_paths: returned list
    cc_resp,       \* fetch_commit_count: the response requests.get produces
    cc_ret,        \* fetch_commit_count: outcome of the call
    returned       \* whether the function under study has returned

vars == <<pc, server, cursor, repos, requests, stderr, stdout, exitCode, repo_data,
          activity_data, idx, calls, outfile, tn_data, tn_ret, pp_data, pp_colors,
          pp_ret, cc_resp, cc_ret, returned>>

runVars == <<pc, server, cursor, repos, requests, stderr, stdout, exitCode, repo_data,
             activity_data, idx, calls, outfile>>

fnVars == <<tn_data, tn_ret, pp_data, pp_colors, pp_ret, cc_resp, cc_ret, returned>>

(***************************************************************************)
(* Program constants                                                       *)
(***************************************************************************)
TOP_N == 5

EXCLUDED_LANGUAGES == {}

OTHER_COLOR == "#6b7280"

REPO_COLORS == <<"#f97316", "#eab308", "#22c55e", "#fb7185", "#a78bfa">>

ACTIVITY_COLORS == <<"#06b6d4", "#6366f1", "#00c2a8", "#ff6b6b", "#ffd166">>

OUTPUT_FILE == "languages-overview.svg"

None == "None"

NotExited == 0 - 1

(***************************************************************************)
(* Bounds of the model                                                     *)
(***************************************************************************)
MaxTally == 7

MaxTallyVal == 2

MaxSlices == 6

MaxSliceVal == 1

MaxParts == 2

MaxPages == 2

MaxNodes == 1

(***************************************************************************)
(* Names available to the bounded inputs                                   *)
(***************************************************************************)
LangNames == <<"Go", "Rust", "Python", "TS", "C", "Ruby", "Java", "Kotlin", "Swift">>

RepoNames == <<"r1", "r2", "r3", "r4", "r5", "r6", "r7", "r8", "r9">>

CursorNames == <<"c1", "c2", "c3", "c4">>

(***************************************************************************)
(* Helpers                                                                 *)
(***************************************************************************)
Min(a, b) == IF a <= b THEN a ELSE b

Item(l, v) == [label |-> l, value |-> v]

\* sum(v for _, v in items)
RECURSIVE SumValues(_)
SumValues(items) ==
    IF items = <<>> THEN 0
    ELSE Head(items).value + SumValues(Tail(items))

\* data[a:b] of a Python list (0-based, half-open), as a sequence
Slice(s, a, b) == SubSeq(s, a + 1, Min(b, Len(s)))

HasKey(d, k) == \E i \in 1..Len(d) : d[i].label = k

\* d.get(k, 0)
DictGet(d, k) ==
    IF HasKey(d, k) THEN d[CHOOSE i \in 1..Len(d) : d[i].label = k].value ELSE 0

\* d[k] = v: an existing key keeps its position, a new key is appended
DictSet(d, k, v) ==
    IF HasKey(d, k)
    THEN [i \in 1..Len(d) |-> IF d[i].label = k THEN Item(k, v) ELSE d[i]]
    ELSE Append(d, Item(k, v))

(***************************************************************************)
(* top_n_with_other                                                        *)
(***************************************************************************)
\* Faulty variant: e goes in front of the items of equal value (ties reversed).
InsertDesc_unstable(acc, e) ==
    LET k == Cardinality({i \in 1..Len(acc) : acc[i].value > e.value})
    IN  SubSeq(acc, 1, k) \o <<e>> \o SubSeq(acc, k + 1, Len(acc))

\* Where the stable descending sort puts e among the already sorted acc:
\* behind every item whose value is at least e's.
InsertDesc(acc, e) ==
    LET k == Cardinality({i \in 1..Len(acc) : acc[i].value >= e.value})
    IN  SubSeq(acc, 1, k) \o <<e>> \o SubSeq(acc, k + 1, Len(acc))

RECURSIVE SortInto(_, _)
SortInto(acc, rest) ==
    IF rest = <<>> THEN acc
    ELSE SortInto(InsertDesc(acc, Head(rest)), Tail(rest))

\* sorted(items, key=lambda x: x[1], reverse=True): descending by value, items
\* of equal value in their original order
sorted_by_value_desc(items) == SortInto(<<>>, items)

\* Faulty variant: the remainder starts one entry late (items[TOP_N + 1:]).
top_n_with_other_dropfirst(data) ==
    LET items == sorted_by_value_desc(data)
        top   == Slice(items, 0, TOP_N)
        other == SumValues(Slice(items, TOP_N + 1, Len(items)))
    IN  IF other > 0 THEN Append(top, Item("Other", other)) ELSE top

top_n_with_other(data) ==
    LET items == sorted_by_value_desc(data)
        top   == Slice(items, 0, TOP_N)
        other == SumValues(Slice(items, TOP_N, Len(items)))
    IN  IF other > 0 THEN Append(top, Item("Other", other)) ELSE top

(***************************************************************************)
(* pie_paths                                                               *)
(***************************************************************************)
\* round(n / d) for n >= 0, d > 0: to the nearest integer, a tie to the even one
PyRound(n, d) ==
    LET q == n \div d
        r == n % d
    IN  IF 2 * r < d THEN q
        ELSE IF 2 * r > d THEN q + 1
        ELSE IF q % 2 = 0 THEN q ELSE q + 1

\* Faulty variant: `+ 1` in place of `or 1`.
PieTotal_plus1(data) == SumValues(data) + 1

\* total = sum(v for _, v in data) or 1
PieTotal(data) == IF SumValues(data) = 0 THEN 1 ELSE SumValues(data)

\* Faulty variant: "Other" is recognised in the last position only.
SliceColor_lastonly(label, i, n, colors) ==
    IF label = "Other" /\ i = n - 1 THEN OTHER_COLOR ELSE colors[(i % Len(colors)) + 1]

\* color of the entry at 0-based index i of n entries
SliceColor(label, i, n, colors) ==
    IF label = "Other" THEN OTHER_COLOR ELSE colors[(i % Len(colors)) + 1]

\* One pass of the for loop per entry; i is enumerate's 0-based index, angle the
\* numerator of the running angle over 4 * total turns.
RECURSIVE PieLoop(_, _, _, _, _, _)
PieLoop(data, colors, total, i, angle, result) ==
    IF i >= Len(data) THEN result
    ELSE LET label == data[i + 1].label
             value == data[i + 1].value
             delta == 4 * value
             a1    == angle
             a2    == angle + delta
             large == IF 2 * value > total THEN 1 ELSE 0
             color == SliceColor(label, i, Len(data), colors)
             d     == [a1 |-> a1, a2 |-> a2, den |-> 4 * total, large |-> large]
             pct   == PyRound(100 * value, total)
         IN  PieLoop(data, colors, total, i + 1, a2,
                     Append(result, [d |-> d, color |-> color, label |-> label, pct |-> pct]))

pie_paths(data, colors) ==
    LET total == PieTotal(data)
    IN  PieLoop(data, colors, total, 0, 0 - total, <<>>)

(***************************************************************************)
(* fetch_commit_count                                                      *)
(***************************************************************************)
Param(n, v) == [name |-> n, val |-> v]

\* int(text) succeeds on a decimal numeral only
IsIntStr(s) == s \in {"0", "1", "2", "3"}

IntOf(s) == CASE s = "0" -> 0 [] s = "1" -> 1 [] s = "2" -> 2 [] s = "3" -> 3

\* "page=" occurs in the text of a query parameter named page or per_page
HasPageEq(p) == p.name \in {"page", "per_page"}

\* 'rel="last"' in part
IsLastPart(part) == part.rel = "last"

\* int(part.split("page=")[-1].split(">")[0]): the text between the last "page="
\* of the part and the ">" closing the URL. It is a numeral only when the last
\* parameter holding "page=" is the URL's final parameter and its value is one.
\* [ok |-> FALSE] stands for the exception int() raises.
ParseLastPage(part) ==
    LET url == part.url
        at  == {j \in 1..Len(url) : HasPageEq(url[j])}
    IN  IF at = {} THEN [ok |-> FALSE, n |-> 0]
        ELSE LET j == CHOOSE k \in at : \A m \in at : m <= k
             IN  IF j = Len(url) /\ IsIntStr(url[j].val)
                 THEN [ok |-> TRUE, n |-> IntOf(url[j].val)]
                 ELSE [ok |-> FALSE, n |-> 0]

Returns(n, diag) == [raised |-> FALSE, value |-> n, stderr |-> diag]

Raises == [raised |-> TRUE, value |-> 0, stderr |-> <<"Traceback">>]

\* Faulty variant: without a rel="last" part the length of the page is returned.
LinkFallthrough_len(resp) ==
    IF resp.jsonOk THEN Returns(resp.jsonLen, <<>>) ELSE Returns(1, <<>>)

\* line 102: the for loop found no part holding rel="last"
LinkFallthrough(resp) == Returns(1, <<>>)

\* resp is what requests.get produces: it raises, or it returns a response of
\* some status, with or without a Link header, whose body is a JSON list or not.
fetch_commit_count(resp) ==
    IF resp.raises THEN Raises
    ELSE IF resp.status_code # 200 THEN Returns(1, <<"Warning: commit fetch">>)
    ELSE IF ~resp.hasLink
         THEN IF resp.jsonOk THEN Returns(resp.jsonLen, <<>>) ELSE Returns(1, <<>>)
    ELSE LET lasts == {j \in 1..Len(resp.link) : IsLastPart(resp.link[j])}
         IN  IF lasts = {} THEN LinkFallthrough(resp)
             ELSE LET j == CHOOSE k \in lasts : \A m \in lasts : k <= m
                      p == ParseLastPage(resp.link[j])
                  IN  IF p.ok THEN Returns(p.n, <<>>) ELSE Returns(1, <<>>)

(***************************************************************************)
(* language_for_repo and the two tallies                                   *)
(***************************************************************************)
\* repo.primaryLanguage is None or a language name; repo.languages is the
\* sequence of names of languages.edges
\* Faulty variant: the breakdown is consulted before the primary language.
language_for_repo_fallbackfirst(repo) ==
    IF repo.languages # <<>> THEN repo.languages[1]
    ELSE repo.primaryLanguage

language_for_repo(repo) ==
    IF repo.primaryLanguage # None THEN repo.primaryLanguage
    ELSE IF repo.languages # <<>> THEN repo.languages[1]
    ELSE None

RECURSIVE CountLoop(_, _)
CountLoop(rs, counts) ==
    IF rs = <<>> THEN counts
    ELSE LET lang == language_for_repo(Head(rs))
         IN  IF lang = None \/ lang \in EXCLUDED_LANGUAGES
             THEN CountLoop(Tail(rs), counts)
             ELSE CountLoop(Tail(rs), DictSet(counts, lang, DictGet(counts, lang) + 1))

languages_by_repo_count(rs) == CountLoop(rs, <<>>)

(***************************************************************************)
(* Idle values of the variables a specification does not use               *)
(***************************************************************************)
NoResponse ==
    [raises |-> FALSE, status_code |-> 0, hasLink |-> FALSE, link |-> <<>>,
     jsonOk |-> FALSE, jsonLen |-> 0]

RunIdle ==
    /\ pc = "idle"
    /\ server = <<>>
    /\ cursor = None
    /\ repos = <<>>
    /\ requests = <<>>
    /\ stderr = <<>>
    /\ stdout = <<>>
    /\ exitCode = NotExited
    /\ repo_data = <<>>
    /\ activity_data = <<>>
    /\ idx = 0
    /\ calls = <<>>
    /\ outfile = <<>>

(***************************************************************************)
(* SpecTopN: top_n_with_other applied to every bounded tally               *)
(***************************************************************************)
\* A tally of n languages: distinct keys in insertion order, weights >= 0
\* (a by-activity weight is 0 when every commit count of the language is 0).
Tally(n, f) == [i \in 1..n |-> Item(LangNames[i], f[i])]

InitTopN ==
    /\ RunIdle
    /\ \E n \in 0..MaxTally : \E f \in [1..n -> 0..MaxTallyVal] : tn_data = Tally(n, f)
    /\ tn_ret = <<>>
    /\ pp_data = <<>>
    /\ pp_colors = <<>>
    /\ pp_ret = <<>>
    /\ cc_resp = NoResponse
    /\ cc_ret = Returns(0, <<>>)
    /\ returned = FALSE

CallTopN ==
    /\ pc = "idle" /\ ~returned
    /\ tn_ret' = top_n_with_other(tn_data)
    /\ returned' = TRUE
    /\ UNCHANGED <<runVars, tn_data, pp_data, pp_colors, pp_ret, cc_resp, cc_ret>>

NextTopN == CallTopN

SpecTopN == InitTopN /\ [][NextTopN]_vars

(***************************************************************************)
(* SpecPie: pie_paths applied to every bounded list and both palettes      *)
(***************************************************************************)
\* Lists of (label, value): the entry at any position may be labeled "Other".
PieInput(n, o, f) == [i \in 1..n |-> Item(IF o[i] THEN "Other" ELSE LangNames[i], f[i])]

InitPie ==
    /\ RunIdle
    /\ \E n \in 0..MaxSlices : \E o \in [1..n -> BOOLEAN], f \in [1..n -> 0..MaxSliceVal] :
          pp_data = PieInput(n, o, f)
    /\ tn_data = <<>>
    /\ tn_ret = <<>>
    /\ pp_colors = <<>>
    /\ pp_ret = <<>>
    /\ cc_resp = NoResponse
    /\ cc_ret = Returns(0, <<>>)
    /\ returned = FALSE

CallPie ==
    /\ pc = "idle" /\ ~returned
    /\ \E colors \in {REPO_COLORS, ACTIVITY_COLORS} :
          /\ pp_colors' = colors
          /\ pp_ret' = pie_paths(pp_data, colors)
    /\ returned' = TRUE
    /\ UNCHANGED <<runVars, tn_data, tn_ret, pp_data, cc_resp, cc_ret>>

NextPie == CallPie

SpecPie == InitPie /\ [][NextPie]_vars

(***************************************************************************)
(* SpecCommit: fetch_commit_count on every bounded response                *)
(***************************************************************************)
\* Query strings of a Link URL: GitHub's own (per_page=1&page=N), the same
\* with the parameters swapped, with a non-numeric page, with page not last.
LinkUrls ==
    { <<Param("per_page", "1"), Param("page", "2")>>,
      <<Param("per_page", "1"), Param("page", "3")>>,
      <<Param("page", "3"), Param("per_page", "1")>>,
      <<Param("per_page", "1"), Param("page", "x")>>,
      <<Param("page", "3"), Param("sha", "x")>> }

LinkParts == [url : LinkUrls, rel : {"next", "last"}]

OkResponse(hasLink, link, jsonOk, jsonLen) ==
    [raises |-> FALSE, status_code |-> 200, hasLink |-> hasLink, link |-> link,
     jsonOk |-> jsonOk, jsonLen |-> jsonLen]

RaisingRequest == [NoResponse EXCEPT !.raises = TRUE]

ErrorResponse(status) == [NoResponse EXCEPT !.status_code = status]

\* per_page=1: the page holds no commit or one
Bodies == {<<FALSE, 0>>, <<TRUE, 0>>, <<TRUE, 1>>}

InitCommit ==
    /\ RunIdle
    /\ \/ cc_resp = RaisingRequest
       \/ \E st \in {404, 409, 500} : cc_resp = ErrorResponse(st)
       \/ \E b \in Bodies : cc_resp = OkResponse(FALSE, <<>>, b[1], b[2])
       \/ \E n \in 1..MaxParts : \E l \in [1..n -> LinkParts], b \in Bodies :
             cc_resp = OkResponse(TRUE, l, b[1], b[2])
    /\ tn_data = <<>>
    /\ tn_ret = <<>>
    /\ pp_data = <<>>
    /\ pp_colors = <<>>
    /\ pp_ret = <<>>
    /\ cc_ret = Returns(0, <<>>)
    /\ returned = FALSE

CallCommit ==
    /\ pc = "idle" /\ ~returned /\ cc_resp # NoResponse
    /\ cc_ret' = fetch_commit_count(cc_resp)
    /\ returned' = TRUE
    /\ UNCHANGED <<runVars, tn_data, tn_ret, pp_data, pp_colors, pp_ret, cc_resp>>

NextCommit == CallCommit

SpecCommit == InitCommit /\ [][NextCommit]_vars

(***************************************************************************)
(* Spec: one run of main()                                                 *)
(***************************************************************************)
\* legend_svg: one row per slice, 20 apart, with swatch colour, label, percentage
legend_svg(x, y, items) ==
    [i \in 1..Len(items) |->
        [x |-> x, yy |-> y + (i - 1) * 20, color |-> items[i].color,
         label |-> items[i].label, pct |-> items[i].pct]]

\* render_combined: the content written to OUTPUT_FILE
render_combined(rd, ad) ==
    LET repo_top   == top_n_with_other(rd)
        act_top    == top_n_with_other(ad)
        repo_paths == pie_paths(repo_top, REPO_COLORS)
        act_paths  == pie_paths(act_top, ACTIVITY_COLORS)
    IN  <<legend_svg(40, 70, repo_paths), legend_svg(440, 70, act_paths),
          [k \in 1..Len(repo_paths) |-> [d |-> repo_paths[k].d, fill |-> repo_paths[k].color]],
          [k \in 1..Len(act_paths) |-> [d |-> act_paths[k].d, fill |-> act_paths[k].color]]>>

\* What the API can hold for a repository: a primary language (with the
\* breakdown in another order), no primary language but a breakdown, neither.
RepoKinds ==
    { [primaryLanguage |-> "Go", languages |-> <<"Rust", "Go">>],
      [primaryLanguage |-> None, languages |-> <<"Rust", "Go">>],
      [primaryLanguage |-> None, languages |-> <<>>] }

RECURSIVE Offset(_, _)
Offset(shape, p) == IF p <= 1 THEN 0 ELSE shape[p - 1] + Offset(shape, p - 1)

\* The account's repositories as the pages the API serves: page p holds
\* shape[p] nodes; names are unique within the account.
ServerPages(n, shape, kind) ==
    [p \in 1..n |->
        [j \in 1..shape[p] |->
            [name |-> RepoNames[Offset(shape, p) + j],
             primaryLanguage |-> kind[p][j].primaryLanguage,
             languages |-> kind[p][j].languages]]]

\* repositories(first: 100, after: $after): the page behind the cursor, with
\* pageInfo { hasNextPage endCursor }
GraphQLPage(pages, after) ==
    LET i == IF after = None THEN 1
             ELSE (CHOOSE k \in 1..Len(CursorNames) : CursorNames[k] = after) + 1
    IN  [nodes |-> pages[i], hasNextPage |-> i < Len(pages), endCursor |-> CursorNames[i]]

\* Responses of the commits endpoint a run meets: the request raises, a
\* non-success status, a Link header whose last page is 3.
RunResponses ==
    { RaisingRequest,
      ErrorResponse(404),
      OkResponse(TRUE, <<[url |-> <<Param("per_page", "1"), Param("page", "3")>>,
                          rel |-> "last"]>>, TRUE, 1) }

Init ==
    /\ pc = "fetch"
    /\ \E n \in 1..MaxPages :
          \E shape \in [1..n -> 0..MaxNodes], kind \in [1..n -> [1..MaxNodes -> RepoKinds]] :
             server = ServerPages(n, shape, kind)
    /\ cursor = None
    /\ repos = <<>>
    /\ requests = <<>>
    /\ stderr = <<>>
    /\ stdout = <<>>
    /\ exitCode = NotExited
    /\ repo_data = <<>>
    /\ activity_data = <<>>
    /\ idx = 0
    /\ calls = <<>>
    /\ outfile = <<>>
    /\ tn_data = <<>>
    /\ tn_ret = <<>>
    /\ pp_data = <<>>
    /\ pp_colors = <<>>
    /\ pp_ret = <<>>
    /\ cc_resp = NoResponse
    /\ cc_ret = Returns(0, <<>>)
    /\ returned = FALSE

\* sys.exit(1) after printing diag to stderr
Exit1(diag) ==
    /\ stderr' = Append(stderr, diag)
    /\ exitCode' = 1
    /\ pc' = "exited"

\* Faulty variant: the loop breaks after every page, whatever hasNextPage says.
FetchPageOk_stopfirst ==
    /\ pc = "fetch"
    /\ LET page == GraphQLPage(server, cursor)
       IN  /\ requests' = Append(requests, cursor)
           /\ repos' = repos \o page.nodes
           /\ pc' = "count"
           /\ cursor' = cursor
    /\ UNCHANGED <<server, stderr, stdout, exitCode, repo_data, activity_data, idx, calls,
                   outfile, fnVars>>

\* one pass of the while loop whose response is a 200 without errors
FetchPageOk ==
    /\ pc = "fetch"
    /\ LET page == GraphQLPage(server, cursor)
       IN  /\ requests' = Append(requests, cursor)
           /\ repos' = repos \o page.nodes
           /\ IF ~page.hasNextPage
              THEN pc' = "count" /\ cursor' = cursor
              ELSE pc' = pc /\ cursor' = page.endCursor
    /\ UNCHANGED <<server, stderr, stdout, exitCode, repo_data, activity_data, idx, calls,
                   outfile, fnVars>>

\* Faulty variant: the diagnostic is printed but the program does not exit.
FetchPageBadStatus_goeson ==
    /\ pc = "fetch"
    /\ requests' = Append(requests, cursor)
    /\ stderr' = Append(stderr, "GraphQL request failed")
    /\ pc' = "count"
    /\ UNCHANGED <<server, cursor, repos, stdout, exitCode, repo_data, activity_data, idx,
                   calls, outfile, fnVars>>

\* resp.status_code != 200
FetchPageBadStatus ==
    /\ pc = "fetch"
    /\ requests' = Append(requests, cursor)
    /\ Exit1("GraphQL request failed")
    /\ UNCHANGED <<server, cursor, repos, stdout, repo_data, activity_data, idx, calls,
                   outfile, fnVars>>

\* data.get("errors")
FetchPageErrors ==
    /\ pc = "fetch"
    /\ requests' = Append(requests, cursor)
    /\ Exit1("GraphQL errors")
    /\ UNCHANGED <<server, cursor, repos, stdout, repo_data, activity_data, idx, calls,
                   outfile, fnVars>>

\* requests.post raises: nothing catches it, the interpreter prints the
\* traceback and exits with status 1
FetchPageRaises ==
    /\ pc = "fetch"
    /\ requests' = Append(requests, cursor)
    /\ Exit1("Traceback")
    /\ UNCHANGED <<server, cursor, repos, stdout, repo_data, activity_data, idx, calls,
                   outfile, fnVars>>

\* repo_data = languages_by_repo_count(repos)
CountLanguages ==
    /\ pc = "count"
    /\ repo_data' = languages_by_repo_count(repos)
    /\ idx' = 0
    /\ pc' = "commits"
    /\ UNCHANGED <<server, cursor, repos, requests, stderr, stdout, exitCode, activity_data,
                   calls, outfile, fnVars>>

Skipped(repo) ==
    language_for_repo(repo) = None \/ language_for_repo(repo) \in EXCLUDED_LANGUAGES

\* Faulty variant: the commit count is requested before the language test.
CommitSkip_callsfirst ==
    /\ pc = "commits"
    /\ idx < Len(repos)
    /\ Skipped(repos[idx + 1])
    /\ \E resp \in RunResponses \ {RaisingRequest} :
          calls' = Append(calls, [name |-> repos[idx + 1].name, resp |-> resp,
                                  ret |-> fetch_commit_count(resp)])
    /\ idx' = idx + 1
    /\ UNCHANGED <<pc, server, cursor, repos, requests, stderr, stdout, exitCode, repo_data,
                   activity_data, outfile, fnVars>>

\* commit_weighted_languages: a pass of the for loop that takes `continue`
CommitSkip ==
    /\ pc = "commits"
    /\ idx < Len(repos)
    /\ Skipped(repos[idx + 1])
    /\ idx' = idx + 1
    /\ UNCHANGED <<pc, server, cursor, repos, requests, stderr, stdout, exitCode, repo_data,
                   activity_data, calls, outfile, fnVars>>

\* commit_weighted_languages: a pass of the for loop that calls
\* fetch_commit_count; an exception of requests.get propagates out of main
CommitCall ==
    /\ pc = "commits"
    /\ idx < Len(repos)
    /\ ~Skipped(repos[idx + 1])
    /\ \E resp \in RunResponses :
          LET repo == repos[idx + 1]
              lang == language_for_repo(repo)
              ret  == fetch_commit_count(resp)
          IN  /\ calls' = Append(calls, [name |-> repo.name, resp |-> resp, ret |-> ret])
              /\ IF ret.raised
                 THEN /\ Exit1("Traceback")
                      /\ UNCHANGED <<activity_data, idx>>
                 ELSE /\ activity_data' =
                            DictSet(activity_data, lang, DictGet(activity_data, lang) + ret.value)
                      /\ stderr' = stderr \o ret.stderr
                      /\ idx' = idx + 1
                      /\ UNCHANGED <<pc, exitCode>>
    /\ UNCHANGED <<server, cursor, repos, requests, stdout, repo_data, outfile, fnVars>>

\* main after commit_weighted_languages returns: the warning, render_combined,
\* print("Wrote", OUTPUT_FILE), normal exit
Render ==
    /\ pc = "commits"
    /\ idx = Len(repos)
    /\ stderr' = IF repo_data = <<>>
                 THEN Append(stderr, "No repository language data found.")
                 ELSE stderr
    /\ outfile' = render_combined(repo_data, activity_data)
    /\ stdout' = Append(stdout, <<"Wrote", OUTPUT_FILE>>)
    /\ exitCode' = 0
    /\ pc' = "done"
    /\ UNCHANGED <<server, cursor, repos, requests, repo_data, activity_data, idx, calls,
                   fnVars>>

Next ==
    \/ FetchPageOk
    \/ FetchPageBadStatus
    \/ FetchPageErrors
    \/ FetchPageRaises
    \/ CountLanguages
    \/ CommitSkip
    \/ CommitCall
    \/ Render

Spec == Init /\ [][Next]_vars

\* fetch_repositories alone: the run up to the return of the listing
NextListing ==
    \/ FetchPageOk
    \/ FetchPageBadStatus
    \/ FetchPageErrors
    \/ FetchPageRaises

\* The program is one sequential thread: while the while loop can take a
\* pass, it takes it.
FairListing == Init /\ [][NextListing]_vars /\ WF_vars(NextListing)


(***************************************************************************)
(* Claims about top_n_with_other (under SpecTopN)                          *)
(***************************************************************************)
\* 1-based position of key k in the dict d
Pos(d, k) == CHOOSE i \in 1..Len(d) : d[i].label = k

EndsWithOther(out) == out # <<>> /\ out[Len(out)].label = "Other"

\* the returned list without the appended "Other" entry
Kept(out) == IF EndsWithOther(out) THEN SubSeq(out, 1, Len(out) - 1) ELSE out

KeptLabels(out) == {Kept(out)[i].label : i \in 1..Len(Kept(out))}

\* the entries of the tally that are not among the kept ones
IsLeftOut(out, e) == e.label \notin KeptLabels(out)

LeftOut(data, out) == {i \in 1..Len(data) : IsLeftOut(out, data[i])}

RECURSIVE SumLeftOut(_, _)
SumLeftOut(data, out) ==
    IF data = <<>> THEN 0
    ELSE (IF IsLeftOut(out, Head(data)) THEN Head(data).value ELSE 0)
         + SumLeftOut(Tail(data), out)

\* C1: the returned list has at most TOP_N + 1 entries; it keeps
\* min(TOP_N, len(tally)) distinct entries of the tally, none smaller than an
\* entry it leaves out; "Other" is present exactly when the entries left out
\* (those ranked beyond TOP_N) sum to more than zero, and its value is that sum.
C1_TopNPlusOther ==
    returned =>
        LET out  == tn_ret
            kept == Kept(out)
            rest == SumLeftOut(tn_data, out)
        IN  /\ Len(out) <= TOP_N + 1
            /\ Len(kept) = Min(TOP_N, Len(tn_data))
            /\ \A i \in 1..Len(kept) :
                  /\ HasKey(tn_data, kept[i].label)
                  /\ kept[i] = tn_data[Pos(tn_data, kept[i].label)]
                  /\ \A j \in 1..Len(kept) : kept[i].label = kept[j].label => i = j
            /\ \A i \in 1..Len(kept) : \A j \in LeftOut(tn_data, out) :
                  kept[i].value >= tn_data[j].value
            /\ EndsWithOther(out) <=> rest > 0
            /\ EndsWithOther(out) => out[Len(out)].value = rest

C1_Witness ==
    /\ returned
    /\ Len(tn_data) >= TOP_N + 2
    /\ Len(tn_ret) = TOP_N + 1
    /\ EndsWithOther(tn_ret)
    /\ tn_ret[Len(tn_ret)].value >= 2

\* C2: for a non-empty tally the returned list is in its final order: the
\* entries other than "Other" descend by value, entries of equal value stand
\* in their tally order, "Other" occurs only as the last entry, and sorting
\* the entries other than "Other" again returns them unchanged.
C2_FinalOrder ==
    (returned /\ tn_data # <<>>) =>
        LET out  == tn_ret
            kept == Kept(out)
        IN  /\ \A i, j \in 1..Len(kept) :
                  i < j => \/ kept[i].value > kept[j].value
                           \/ /\ kept[i].value = kept[j].value
                              /\ Pos(tn_data, kept[i].label) < Pos(tn_data, kept[j].label)
            /\ \A i \in 1..Len(out) : out[i].label = "Other" => i = Len(out)
            /\ sorted_by_value_desc(kept) = kept

C2_Witness ==
    /\ returned
    /\ EndsWithOther(tn_ret)
    /\ tn_ret[Len(tn_ret)].value > tn_ret[1].value
    /\ tn_ret[1].label # tn_data[1].label
    /\ \E i \in 1..Len(Kept(tn_ret)) - 1 : tn_ret[i].value = tn_ret[i + 1].value

(***************************************************************************)
(* Claims about pie_paths (under SpecPie)                                  *)
(***************************************************************************)
\* C6: every entry labeled "Other" gets OTHER_COLOR whatever its position;
\* every other entry at 0-based index i gets colors[i mod len(colors)].
C6_Colors ==
    returned =>
        /\ Len(pp_ret) = Len(pp_data)
        /\ \A k \in 1..Len(pp_data) :
              /\ pp_ret[k].label = pp_data[k].label
              /\ pp_data[k].label = "Other" => pp_ret[k].color = OTHER_COLOR
              /\ pp_data[k].label # "Other" =>
                    pp_ret[k].color = pp_colors[((k - 1) % Len(pp_colors)) + 1]

C6_Witness ==
    /\ returned
    /\ Len(pp_data) > Len(pp_colors)
    /\ pp_data[1].label = "Other"
    /\ pp_ret[1].color = OTHER_COLOR
    /\ pp_data[Len(pp_colors) + 1].label # "Other"
    /\ pp_ret[Len(pp_colors) + 1].color = pp_colors[1]

\* C7: the first slice starts at -90 degrees (-1/4 turn), each later slice
\* starts where the previous one ends, each span is value/total of a turn;
\* when the values sum to more than zero the last slice ends one full turn
\* after the first one starts; when they sum to zero the total is 1 and every
\* span is zero.
C7_Layout ==
    returned =>
        LET sum   == SumValues(pp_data)
            total == IF sum = 0 THEN 1 ELSE sum
            n     == Len(pp_ret)
        IN  /\ n = Len(pp_data)
            /\ \A k \in 1..n :
                  LET d == pp_ret[k].d
                  IN  /\ d.den = 4 * total
                      /\ k = 1 => 4 * d.a1 = 0 - d.den
                      /\ k > 1 => d.a1 = pp_ret[k - 1].d.a2
                      /\ (d.a2 - d.a1) * total = pp_data[k].value * d.den
                      /\ sum = 0 => d.a2 = d.a1
            /\ (sum > 0 /\ n > 0) => pp_ret[n].d.a2 = pp_ret[1].d.a1 + pp_ret[1].d.den

C7_Witness ==
    /\ returned
    /\ Len(pp_ret) >= 3
    /\ pp_data[1].value > 0
    /\ pp_data[2].value = 0
    /\ pp_data[3].value > 0
    /\ pp_ret[3].d.a1 = pp_ret[1].d.a2
    /\ pp_ret[Len(pp_ret)].d.a2 = pp_ret[1].d.a1 + pp_ret[1].d.den

(***************************************************************************)
(* Claims about fetch_commit_count (under SpecCommit)                      *)
(***************************************************************************)
Succeeded(resp) == ~resp.raises /\ resp.status_code = 200

LastParts(resp) == {j \in 1..Len(resp.link) : IsLastPart(resp.link[j])}

HasLastLink(resp) == resp.hasLink /\ LastParts(resp) # {}

FirstLastPart(resp) ==
    resp.link[CHOOSE k \in LastParts(resp) : \A m \in LastParts(resp) : k <= m]

\* C9 as stated: on a successful response the call returns the page number
\* parsed from the "last" link when there is one, and the length of the
\* returned page whenever there is none, a Link header without a rel="last"
\* part included.
C9_AsStated ==
    (returned /\ Succeeded(cc_resp)) =>
        /\ ~cc_ret.raised
        /\ (HasLastLink(cc_resp) /\ ParseLastPage(FirstLastPart(cc_resp)).ok) =>
              cc_ret.value = ParseLastPage(FirstLastPart(cc_resp)).n
        /\ (~HasLastLink(cc_resp) /\ cc_resp.jsonOk) => cc_ret.value = cc_resp.jsonLen

\* C9 amended: on a successful response the call returns the page number
\* parsed from the first rel="last" part of the Link header when there is one
\* (N for a URL ending per_page=1&page=N), the length of the returned page
\* when the response has no Link header, and 1 when a Link header exists but
\* carries no rel="last" part.
C9_Amended ==
    (returned /\ Succeeded(cc_resp)) =>
        /\ ~cc_ret.raised
        /\ (HasLastLink(cc_resp) /\ ParseLastPage(FirstLastPart(cc_resp)).ok) =>
              cc_ret.value = ParseLastPage(FirstLastPart(cc_resp)).n
        /\ \A v \in {"2", "3"} :
              (HasLastLink(cc_resp)
               /\ FirstLastPart(cc_resp).url = <<Param("per_page", "1"), Param("page", v)>>) =>
                    cc_ret.value = IntOf(v)
        /\ (~cc_resp.hasLink /\ cc_resp.jsonOk) => cc_ret.value = cc_resp.jsonLen
        /\ (cc_resp.hasLink /\ ~HasLastLink(cc_resp)) => cc_ret.value = 1

C9_Witness ==
    /\ returned
    /\ Succeeded(cc_resp)
    /\ cc_resp.hasLink
    /\ ~HasLastLink(cc_resp)
    /\ cc_resp.jsonOk
    /\ cc_resp.jsonLen = 0
    /\ cc_ret.value = 1

(***************************************************************************)
(* Claims about a run of main() (under Spec and FairListing)               *)
(***************************************************************************)
Printed(diag) == \E k \in 1..Len(stderr) : stderr[k] = diag

\* a page request of the listing came back non-success or with errors
ListingFailed == Printed("GraphQL request failed") \/ Printed("GraphQL errors")

\* the while loop of fetch_repositories has ended by `break`
ListingDone == pc \in {"count", "commits", "done"} \/ calls # <<>>

RECURSIVE Concat(_)
Concat(pages) == IF pages = <<>> THEN <<>> ELSE Head(pages) \o Concat(Tail(pages))

\* the cursor each request must carry: none, then the endCursor of the
\* response before
ExpectedCursors ==
    [i \in 1..Len(server) |->
        IF i = 1 THEN None ELSE GraphQLPage(server, requests[i - 1]).endCursor]

\* C3: once a page request of the listing fails, the program has exited with
\* status 1 and a diagnostic, and nothing happens afterwards: no further page
\* request, no commit-count request, no tally, no output file.
C3_ListingFailureFatal ==
    /\ [](ListingFailed =>
            /\ pc = "exited"
            /\ exitCode = 1
            /\ stderr[Len(stderr)] \in {"GraphQL request failed", "GraphQL errors"}
            /\ calls = <<>>
            /\ repo_data = <<>>
            /\ activity_data = <<>>
            /\ outfile = <<>>
            /\ stdout = <<>>)
    /\ [][ListingFailed => UNCHANGED vars]_vars
    /\ [][(~ListingFailed /\ ListingFailed') =>
            (requests' = Append(requests, cursor) /\ repos' = repos)]_vars

C3_Witness ==
    /\ ListingFailed
    /\ Len(requests) = 2
    /\ repos # <<>>
    /\ exitCode = 1

\* what a failed commit-count call is: the request raises, the status is not
\* 200, or the page number of the "last" link does not parse
CallFailed(resp) ==
    \/ resp.raises
    \/ resp.status_code # 200
    \/ HasLastLink(resp) /\ ~ParseLastPage(FirstLastPart(resp)).ok

\* C4 as stated: every failed commit-count call returns 1 and prints a
\* diagnostic, and the run goes on: when the listing succeeded the program
\* never exits with a non-zero status.
C4_AsStated ==
    /\ \A k \in 1..Len(calls) :
          CallFailed(calls[k].resp) =>
              /\ ~calls[k].ret.raised
              /\ calls[k].ret.value = 1
              /\ calls[k].ret.stderr # <<>>
    /\ ListingDone => exitCode \in {NotExited, 0}

\* the language the claim attributes to a repository
Attributed(repo) ==
    CASE repo.primaryLanguage # None -> repo.primaryLanguage
      [] repo.primaryLanguage = None /\ repo.languages # <<>> -> repo.languages[1]
      [] OTHER -> None

ReposOf(lang) == {i \in 1..Len(repos) : Attributed(repos[i]) = lang}

Keys(d) == {d[i].label : i \in 1..Len(d)}

RepoNamed(name) == repos[CHOOSE i \in 1..Len(repos) : repos[i].name = name]

RECURSIVE SumCalls(_, _)
SumCalls(cs, lang) ==
    IF cs = <<>> THEN 0
    ELSE (IF Attributed(RepoNamed(Head(cs).name)) = lang /\ ~Head(cs).ret.raised
          THEN Head(cs).ret.value ELSE 0)
         + SumCalls(Tail(cs), lang)

\* C5: a repository counts for its primary language if it has one, else for
\* the first language of its breakdown, else for none. The by-count tally
\* holds, for each language, the number of repositories attributed to it and
\* no other key; the by-activity tally holds, for each language, the sum of
\* the commit counts returned for the repositories attributed to it; a
\* repository with no language adds no key, changes no value and gets no
\* commit-count call.
C5_Attribution ==
    (pc \in {"commits", "done"} \/ calls # <<>>) =>
        /\ None \notin Keys(repo_data) \cup Keys(activity_data)
        /\ \A lang \in (Keys(repo_data) \cup Keys(activity_data) \cup {"Go", "Rust"}) :
              /\ DictGet(repo_data, lang) = Cardinality(ReposOf(lang))
              /\ HasKey(repo_data, lang) <=> ReposOf(lang) # {}
              /\ DictGet(activity_data, lang) = SumCalls(calls, lang)
        /\ SumValues(repo_data) = Len(repos) - Cardinality(ReposOf(None))
        /\ Keys(activity_data) \subseteq Keys(repo_data)
        /\ \A k \in 1..Len(calls) : Attributed(RepoNamed(calls[k].name)) # None

C5_Witness ==
    /\ pc = "done"
    /\ Len(repos) = 2
    /\ repos[1].primaryLanguage = None /\ repos[1].languages = <<>>
    /\ repos[2].primaryLanguage = None /\ repos[2].languages # <<>>
    /\ repo_data = <<Item("Rust", 1)>>
    /\ activity_data = <<Item("Rust", 3)>>

\* C8: the requests sent are, in order, a request without cursor and then one
\* carrying the endCursor of the response before; once the loop has ended by
\* `break` there is one request per page of the server's chain and repos is
\* the concatenation, in order, of the nodes of every page; and the loop ends.
C8_Pagination ==
    /\ [](/\ Len(requests) <= Len(server)
          /\ \A i \in 1..Len(requests) : requests[i] = ExpectedCursors[i])
    /\ [](ListingDone => (repos = Concat(server) /\ Len(requests) = Len(server)))
    /\ <>(pc # "fetch")

C8_Witness ==
    /\ pc = "count"
    /\ Len(server) = 2
    /\ requests = <<None, "c1">>
    /\ Len(repos) = 2
    /\ repos = server[1] \o server[2]

RECURSIVE WithLanguage(_)
WithLanguage(rs) ==
    IF rs = <<>> THEN <<>>
    ELSE (IF Attributed(Head(rs)) # None THEN <<Head(rs).name>> ELSE <<>>)
         \o WithLanguage(Tail(rs))

\* C10 as stated: when the listing succeeded and the output file is written,
\* a commit-count call has been made for every repository of the fetched list.
C10_AsStated ==
    outfile # <<>> =>
        \A i \in 1..Len(repos) : \E k \in 1..Len(calls) : calls[k].name = repos[i].name

\* C10 amended: the commit-count calls made so far are, in order and one each,
\* the first of the repositories of the fetched list that have a resolvable
\* language; none is made before the listing has completed; and the output
\* file is written only when every such repository has had its call.
C10_Amended ==
    LET want == WithLanguage(repos)
    IN  /\ Len(calls) <= Len(want)
        /\ \A k \in 1..Len(calls) : calls[k].name = want[k]
        /\ pc = "fetch" => calls = <<>>
        /\ calls # <<>> => (repos = Concat(server) /\ Len(requests) = Len(server))
        /\ outfile # <<>> => Len(calls) = Len(want)

C10_Witness ==
    /\ pc = "done"
    /\ outfile # <<>>
    /\ Len(repos) = 2
    /\ Attributed(repos[1]) = None
    /\ Len(calls) = 1
    /\ calls[1].name = repos[2].name

====
